---- MODULE Spec2Model ----
(***************************************************************************)
(* A model of shell.py: the lexer (tokenize), the pipeline parser          *)
(* (parse_pipeline), executable resolution (find_executable), the          *)
(* executor (run_pipeline) with its descriptor tables and child            *)
(* processes, and the driver loop (main).                                  *)
(*                                                                         *)
(* Strings are sequences of one-character strings, so that the lexer can   *)
(* be modelled character by character.  Python's None is the empty         *)
(* sequence wherever the code only ever compares it with non-empty tokens. *)
(***************************************************************************)
EXTENDS Integers, Sequences, FiniteSets, TLC

\* ------------------------------------------------------------------------
\* Bounds of the model
\* ------------------------------------------------------------------------
\* Longest token sequence handed to the parser in SpecParse.
MaxTokens == 5
\* Most entries of the PATH variable in SpecResolve.
MaxPathEntries == 2
\* Number of lines the driver reads before end of input.
MaxLines == 2
\* Size of a process's descriptor table (RLIMIT_NOFILE).
MaxFd == 8
\* Longest line handed to parse_pipeline in SpecTokenize.
MaxChars == 5

\* ------------------------------------------------------------------------
\* Characters and strings
\* ------------------------------------------------------------------------
None == << >>

SP == " "
TAB == "\t"
DQUOTE == "\""
SQUOTE == "'"
BSLASH == "\\"

\* \s of the regular expression, and the characters str.strip() removes.
IsSpace(c) == c \in {SP, TAB}

RECURSIVE LStrip(_)
LStrip(s) ==
    IF s # << >> /\ IsSpace(Head(s)) THEN LStrip(Tail(s)) ELSE s

RECURSIVE RStrip(_)
RStrip(s) ==
    IF s # << >> /\ IsSpace(s[Len(s)]) THEN RStrip(SubSeq(s, 1, Len(s) - 1)) ELSE s

\* str.strip()
Strip(s) == RStrip(LStrip(s))

\* str.split(sep) for a one-character separator: "" splits to [""].
RECURSIVE Split(_, _)
Split(s, sep) ==
    IF \E k \in 1..Len(s) : s[k] = sep
    THEN LET k == CHOOSE k \in 1..Len(s) :
                      s[k] = sep /\ \A j \in 1..(k - 1) : s[j] # sep
         IN  << SubSeq(s, 1, k - 1) >> \o Split(SubSeq(s, k + 1, Len(s)), sep)
    ELSE << s >>

\* The token keeps the quotes it was written with.
Unescape_KeepQuotes(s, q) == << q >> \o s \o << q >>

\* str.replace(BSLASH + q, q): non-overlapping, left to right.
RECURSIVE Unescape(_, _)
Unescape(s, q) ==
    IF s = << >> THEN << >>
    ELSE IF Len(s) >= 2 /\ s[1] = BSLASH /\ s[2] = q
         THEN << q >> \o Unescape(SubSeq(s, 3, Len(s)), q)
         ELSE << s[1] >> \o Unescape(Tail(s), q)

\* ------------------------------------------------------------------------
\* tokenize (shell.py 33-56)
\* ------------------------------------------------------------------------
NoMatch == 0

\* End (exclusive, 1-based) of the longest run of [^\s"'] starting at p.
RECURSIVE RunEnd(_, _)
RunEnd(s, p) ==
    IF p <= Len(s) /\ ~IsSpace(s[p]) /\ s[p] # DQUOTE /\ s[p] # SQUOTE
    THEN RunEnd(s, p + 1)
    ELSE p

\* The quoted alternative q((?:\\.|[^q])+)q from the body position p on, as
\* the backtracking matcher explores it: an escaped pair first, then a single
\* non-quote character, then the closing quote (only after one iteration).
\* Yields the position after the closing quote, or NoMatch.
RECURSIVE QuotedEnd(_, _, _, _)
QuotedEnd(s, p, q, some) ==
    IF p > Len(s) THEN NoMatch
    ELSE LET pair == IF s[p] = BSLASH /\ p + 1 <= Len(s)
                     THEN QuotedEnd(s, p + 2, q, TRUE) ELSE NoMatch
             one  == IF s[p] # q THEN QuotedEnd(s, p + 1, q, TRUE) ELSE NoMatch
             stop == IF some /\ s[p] = q THEN p + 1 ELSE NoMatch
         IN  IF pair # NoMatch THEN pair
             ELSE IF one # NoMatch THEN one
             ELSE stop

RECURSIVE SkipSpace(_, _)
SkipSpace(s, p) ==
    IF p <= Len(s) /\ IsSpace(s[p]) THEN SkipSpace(s, p + 1) ELSE p

\* token_re.match(s, pos): [end |-> position after the match, tok |-> token],
\* end = NoMatch when nothing matches.
TokenMatch(s, pos) ==
    LET p == SkipSpace(s, pos) IN
    IF p > Len(s) THEN [end |-> NoMatch, tok |-> None]
    ELSE IF p + 1 <= Len(s) /\ s[p] = ">" /\ s[p + 1] = ">"
         THEN [end |-> p + 2, tok |-> << ">", ">" >>]
    ELSE IF RunEnd(s, p) > p
         THEN [end |-> RunEnd(s, p), tok |-> SubSeq(s, p, RunEnd(s, p) - 1)]
    ELSE IF s[p] \in {DQUOTE, SQUOTE}
         THEN LET e == QuotedEnd(s, p + 1, s[p], FALSE) IN
              IF e = NoMatch THEN [end |-> NoMatch, tok |-> None]
              ELSE [end |-> e, tok |-> Unescape(SubSeq(s, p + 1, e - 2), s[p])]
    ELSE [end |-> NoMatch, tok |-> None]

\* Where nothing matches, one character is skipped and the scan goes on.
RECURSIVE TokenizeFrom_SkipUnmatched(_, _)
TokenizeFrom_SkipUnmatched(s, pos) ==
    IF pos > Len(s) THEN << >>
    ELSE LET m == TokenMatch(s, pos) IN
         IF m.end = NoMatch
         THEN TokenizeFrom_SkipUnmatched(s, SkipSpace(s, pos) + 1)
         ELSE << m.tok >> \o TokenizeFrom_SkipUnmatched(s, m.end)

\* Lines 43-56: the loop.
RECURSIVE TokenizeFrom(_, _)
TokenizeFrom(s, pos) ==
    IF pos > Len(s) THEN << >>
    ELSE LET m == TokenMatch(s, pos) IN
         IF m.end = NoMatch THEN << >>
         ELSE << m.tok >> \o TokenizeFrom(s, m.end)

tokenize(s) == TokenizeFrom(s, 1)

\* ------------------------------------------------------------------------
\* parse_pipeline (shell.py 61-115)
\* ------------------------------------------------------------------------
T_PIPE == << "|" >>
T_OUT == << ">" >>
T_APPEND == << ">", ">" >>
T_IN == << "<" >>

\* Lines 66-74: split the tokens at every "|".
RECURSIVE SplitSegments(_, _)
SplitSegments(tokens, cur) ==
    IF tokens = << >> THEN << cur >>
    ELSE IF Head(tokens) = T_PIPE
         THEN << cur >> \o SplitSegments(Tail(tokens), << >>)
         ELSE SplitSegments(Tail(tokens), Append(cur, Head(tokens)))

\* A '>' without a target leaves the path an earlier redirection set.
RedirectOut_KeepPath(seg, i, c) ==
    [c EXCEPT !.out = IF i + 1 <= Len(seg) THEN seg[i + 1] ELSE c.out]

\* Lines 85-92: the '>' branch (outfile_append is left as it is).
RedirectOut(seg, i, c) ==
    [c EXCEPT !.out = IF i + 1 <= Len(seg) THEN seg[i + 1] ELSE None]

\* Lines 93-101: the '>>' branch.
RedirectAppend(seg, i, c) ==
    IF i + 1 <= Len(seg)
    THEN [c EXCEPT !.out = seg[i + 1], !.append = TRUE]
    ELSE [c EXCEPT !.out = None]

\* Lines 102-109: the '<' branch.
RedirectIn(seg, i, c) ==
    [c EXCEPT !.in = IF i + 1 <= Len(seg) THEN seg[i + 1] ELSE None]

\* Lines 83-112: the scan of one segment from (1-based) position i.
RECURSIVE ScanSegment(_, _, _)
ScanSegment(seg, i, c) ==
    IF i > Len(seg) THEN c
    ELSE IF seg[i] = T_OUT THEN ScanSegment(seg, i + 2, RedirectOut(seg, i, c))
    ELSE IF seg[i] = T_APPEND THEN ScanSegment(seg, i + 2, RedirectAppend(seg, i, c))
    ELSE IF seg[i] = T_IN THEN ScanSegment(seg, i + 2, RedirectIn(seg, i, c))
    ELSE ScanSegment(seg, i + 1, [c EXCEPT !.args = Append(@, seg[i])])

\* Lines 78-82: the record a segment starts from.
EmptyCmd == [args |-> << >>, in |-> None, out |-> None, append |-> FALSE]

ParseSegment(seg) == ScanSegment(seg, 1, EmptyCmd)

\* Every segment yields a record.
KeepCmd_Always(c) == TRUE

\* Lines 113-114: a record is kept only if it has args.
KeepCmd(c) == c.args # << >>

\* Lines 76-115.
RECURSIVE ParseSegments(_)
ParseSegments(segments) ==
    IF segments = << >> THEN << >>
    ELSE LET c == ParseSegment(Head(segments)) IN
         (IF KeepCmd(c) THEN << c >> ELSE << >>) \o ParseSegments(Tail(segments))

\* Lines 63-115: parse_pipeline after tokenize.
ParseTokens(tokens) ==
    IF tokens = << >> THEN << >>
    ELSE ParseSegments(SplitSegments(tokens, << >>))

parse_pipeline(line) == ParseTokens(tokenize(line))

\* ------------------------------------------------------------------------
\* The environment: file system, environment variables
\* ------------------------------------------------------------------------
SLASH == "/"
COLON == ":"

\* Directories that exist.
Dirs == { << "/" >>, << "/", "w" >>, << "/", "t" >>, << "/", "b" >> }

\* A path as the kernel resolves it for a process whose directory is dir.
AbsPath(p, dir) ==
    IF p # << >> /\ p[1] = SLASH THEN p
    ELSE IF dir = << SLASH >> THEN dir \o p
    ELSE dir \o << SLASH >> \o p

\* The directory part of an absolute path.
RECURSIVE DirName(_)
DirName(p) ==
    IF Len(p) <= 1 THEN << SLASH >>
    ELSE IF p[Len(p)] = SLASH
         THEN (IF Len(p) = 1 THEN p ELSE SubSeq(p, 1, Len(p) - 1))
         ELSE DirName(SubSeq(p, 1, Len(p) - 1))

\* os.environ.get(name, default)
environ_get(env, name, default) ==
    IF name \in DOMAIN env THEN env[name] ELSE default

\* os.path.join(d, cmd) for a cmd that is not absolute.
path_join(d, cmd) ==
    IF d = << >> THEN cmd
    ELSE IF d[Len(d)] = SLASH THEN d \o cmd
    ELSE d \o << SLASH >> \o cmd

\* os.access(p, os.X_OK) and os.path.isfile(p), for a process in dir, where
\* xs is the set of (absolute paths of) executable regular files.
IsExecutableFile(p, dir, xs) == AbsPath(p, dir) \in xs

\* ------------------------------------------------------------------------
\* find_executable (shell.py 17-28)
\* ------------------------------------------------------------------------
\* Lines 24-28: the loop over the entries of PATH.
RECURSIVE SearchPath(_, _, _, _)
SearchPath(ds, cmd, dir, xs) ==
    IF ds = << >> THEN None
    ELSE LET full == path_join(Head(ds), cmd) IN
         IF IsExecutableFile(full, dir, xs) THEN full
         ELSE SearchPath(Tail(ds), cmd, dir, xs)

\* Line 23-24: the directories searched.
PathEntries(env) == Split(environ_get(env, "PATH", << >>), COLON)

find_executable(cmd, env, dir, xs) ==
    IF \E k \in 1..Len(cmd) : cmd[k] = SLASH
    THEN (IF IsExecutableFile(cmd, dir, xs) THEN cmd ELSE None)
    ELSE SearchPath(PathEntries(env), cmd, dir, xs)

\* ------------------------------------------------------------------------
\* Descriptor tables
\* ------------------------------------------------------------------------
Fds == 0..(MaxFd - 1)

Closed == [kind |-> "closed"]
Tty == [kind |-> "tty"]
\* The two ends of pipe k (0-based, as in the pipes list) of line number ln.
ReadEnd(ln, k) == [kind |-> "r", pipe |-> k, line |-> ln]
WriteEnd(ln, k) == [kind |-> "w", pipe |-> k, line |-> ln]
\* An open file: mode is "r", "trunc" or "append".
FileObj(path, mode) == [kind |-> "file", path |-> path, mode |-> mode]

\* A table entry: the open file description and the close-on-exec flag.
FdEntry(obj, cx) == [obj |-> obj, cx |-> cx]
NoFd == FdEntry(Closed, FALSE)

NoFds == [fd \in Fds |-> NoFd]
\* The table the shell starts with: the three standard descriptors.
StdFds == [fd \in Fds |-> IF fd <= 2 THEN FdEntry(Tty, FALSE) ELSE NoFd]

FreeFds(t) == {fd \in Fds : t[fd] = NoFd}
LowestFree(t) == CHOOSE fd \in FreeFds(t) : \A g \in FreeFds(t) : fd <= g

\* open() and pipe() return non-inheritable descriptors (PEP 446).
OpenAt(t, fd, obj) == [t EXCEPT ![fd] = FdEntry(obj, TRUE)]
\* os.dup2(src, dst): dst is inheritable; a no-op when src = dst.
Dup2(t, src, dst) ==
    IF src = dst THEN t ELSE [t EXCEPT ![dst] = FdEntry(t[src].obj, FALSE)]
\* os.close(fd) with the error of a closed descriptor ignored.
Close(t, fd) == [t EXCEPT ![fd] = NoFd]
\* What execve keeps.
CloseOnExec(t) == [fd \in Fds |-> IF t[fd].cx THEN NoFd ELSE t[fd]]

\* Lines 167-175 and 192-200: close both ends of every pipe of the list.
RECURSIVE CloseAll(_, _)
CloseAll(t, ps) ==
    IF ps = << >> THEN t
    ELSE CloseAll(Close(Close(t, Head(ps)[1]), Head(ps)[2]), Tail(ps))

\* ------------------------------------------------------------------------
\* State
\* ------------------------------------------------------------------------
VARIABLES
    environ,     \* os.environ: a function from the names that are set
    execs,       \* the executable regular files (absolute paths)
    files,       \* the regular files redirections can name: path -> content
    sigchld,     \* the inherited disposition of SIGCHLD: "default" or "ignore"
    mpc,         \* where the shell process is
    lineNo,      \* lines read so far
    cwd,         \* the shell's working directory
    fds,         \* the shell's descriptor table
    background,  \* main's background flag
    cmdline,     \* main's line, as handed to parse_pipeline
    tokens,      \* parse_pipeline's tokens
    cmds,        \* the parsed pipeline
    pipes,       \* run_pipeline's pipes: pairs << r, w >> of descriptors
    pids,        \* run_pipeline's pids (a child's pid is its stage index)
    exit_codes,  \* run_pipeline's exit_codes
    waited,      \* the pids waitpid was called on, in order
    ret,         \* << the value run_pipeline returned >>, or NoStatus
    stderr,      \* what main printed to stderr for the current line
    procs        \* the children of the current line: stage index -> process

vars == << environ, execs, files, sigchld, mpc, lineNo, cwd, fds, background,
           cmdline, tokens, cmds, pipes, pids, exit_codes, waited, ret, stderr, procs >>

envVars == << environ, execs, sigchld >>
parentVars == << mpc, lineNo, cwd, fds, background, cmdline, tokens, cmds, pipes, pids,
                 exit_codes, waited, ret, stderr >>

\* Number of stages of the current pipeline, and its parts by 0-based index.
n == Len(cmds)
Cmd(i) == cmds[i + 1]
PipeR(i) == pipes[i + 1][1]
PipeW(i) == pipes[i + 1][2]

Stages == DOMAIN procs

\* ------------------------------------------------------------------------
\* Child processes (shell.py 133-187)
\* ------------------------------------------------------------------------
Alive == [how |-> "alive", code |-> 0]
Exited(c) == [how |-> "exit", code |-> c]
Signaled == [how |-> "signal", code |-> 0]

\* Exit statuses a program that was executed may end with.
ExitCodes == {0, 2}

\* Executable files execve cannot load (ENOEXEC).
BadFormat == { << "/", "b", "/", "b" >> }

\* Line 132: the child starts as a copy of the shell.
NewChild(t, dir) ==
    [pc |-> "stdin", fds |-> t, cwd |-> dir, full |-> None, st |-> Alive,
     msg |-> None]

\* A process that ended: its descriptors are closed; it stays a zombie until
\* waited for, unless SIGCHLD is ignored.
Terminated(p, st, msg) ==
    [p EXCEPT !.pc = IF sigchld = "ignore" THEN "gone" ELSE "zombie",
              !.fds = NoFds, !.st = st, !.msg = msg]

\* The child exits with the status shells use for a command not found.
CommandNotFound_Status127(p, name) == Terminated(p, Exited(127), name)

\* print(f"{name}: command not found", file=sys.stderr); os._exit(1)
CommandNotFound(p, name) == Terminated(p, Exited(1), name)

Live(p) == p.pc \in {"stdin", "stdout", "close", "resolve", "exec", "running"}

\* open(path) then dup2 onto fd and close of the original (138-140, 156-158).
RedirectTo(t, obj, fd) ==
    LET f == LowestFree(t) IN Close(Dup2(OpenAt(t, f, obj), f, fd), f)

\* Line 136: stage 0 takes its stdin from the file.
StdinFromFile(i, c) == i = 0 /\ c.in # None
\* Line 144: a later stage takes its stdin from the upstream pipe.
StdinFromPipe(i, c) == i > 0
\* Line 149: the last stage sends its stdout to the file.
StdoutToFile(i, c) == i = n - 1 /\ c.out # None
\* The pipe is used only when the record names no output file.
StdoutToPipe_UnlessFile(i, c) == i < n - 1 /\ c.out = None

\* Line 162: an earlier stage sends its stdout to the downstream pipe.
StdoutToPipe(i, c) == i < n - 1

\* os.open(path, os.O_RDONLY) succeeds.
CanOpenRead(path, p) ==
    AbsPath(path, p.cwd) \in DOMAIN files /\ FreeFds(p.fds) # {}
\* os.open(path, O_WRONLY | O_CREAT | ..., 0o666) succeeds.
CanOpenWrite(path, p) ==
    /\ DirName(AbsPath(path, p.cwd)) \in Dirs
    /\ AbsPath(path, p.cwd) \notin Dirs
    /\ FreeFds(p.fds) # {}

\* Lines 151-155: the mode the output file is opened in.
OpenMode(c) == IF c.append THEN "append" ELSE "trunc"

\* Opening creates the file but never empties it.
FilesAfterOpen_NoTruncate(fs, path, mode) ==
    IF path \in DOMAIN fs THEN fs ELSE (path :> "empty") @@ fs

\* The file system after a successful open for writing.
FilesAfterOpen(fs, path, mode) ==
    IF mode = "append" /\ path \in DOMAIN fs THEN fs
    ELSE (path :> "empty") @@ fs

\* Lines 136-146.
ChildStdin(i) ==
    /\ i \in Stages
    /\ procs[i].pc = "stdin"
    /\ LET p == procs[i]
           c == Cmd(i)
           opened == StdinFromFile(i, c) /\ CanOpenRead(c.in, p)
           t1 == IF opened
                 THEN RedirectTo(p.fds, FileObj(AbsPath(c.in, p.cwd), "r"), 0)
                 ELSE p.fds
       IN  procs' = [procs EXCEPT ![i] =
               IF StdinFromFile(i, c) /\ ~opened THEN CommandNotFound(p, c.in)
               ELSE IF StdinFromPipe(i, c)
                    THEN (IF t1[PipeR(i - 1)] = NoFd
                          THEN Terminated(p, Exited(1), None)
                          ELSE [p EXCEPT !.pc = "stdout",
                                         !.fds = Dup2(t1, PipeR(i - 1), 0)])
                    ELSE [p EXCEPT !.pc = "stdout", !.fds = t1]]
    /\ UNCHANGED << envVars, parentVars, files >>

\* Lines 149-164.
ChildStdout(i) ==
    /\ i \in Stages
    /\ procs[i].pc = "stdout"
    /\ LET p == procs[i]
           c == Cmd(i)
           opened == StdoutToFile(i, c) /\ CanOpenWrite(c.out, p)
           path == AbsPath(c.out, p.cwd)
           t1 == IF opened
                 THEN RedirectTo(p.fds, FileObj(path, OpenMode(c)), 1)
                 ELSE p.fds
       IN  /\ files' = IF opened THEN FilesAfterOpen(files, path, OpenMode(c))
                       ELSE files
           /\ procs' = [procs EXCEPT ![i] =
               IF StdoutToFile(i, c) /\ ~opened THEN CommandNotFound(p, c.out)
               ELSE IF StdoutToPipe(i, c)
                    THEN (IF t1[PipeW(i)] = NoFd
                          THEN Terminated(p, Exited(1), None)
                          ELSE [p EXCEPT !.pc = "close",
                                         !.fds = Dup2(t1, PipeW(i), 1)])
                    ELSE [p EXCEPT !.pc = "close", !.fds = t1]]
    /\ UNCHANGED << envVars, parentVars >>

\* The child leaves the pipe descriptors it inherited open.
ChildCloseFds_Skip(t, ps) == t

\* Lines 166-175: the child's close loop.
ChildCloseFds(t, ps) == CloseAll(t, ps)

ChildClose(i) ==
    /\ i \in Stages
    /\ procs[i].pc = "close"
    /\ procs' = [procs EXCEPT ![i].pc = "resolve",
                              ![i].fds = ChildCloseFds(@, pipes)]
    /\ UNCHANGED << envVars, parentVars, files >>

\* Lines 178-182.
ChildResolve(i) ==
    /\ i \in Stages
    /\ procs[i].pc = "resolve"
    /\ LET p == procs[i]
           prog == Cmd(i).args[1]
           full == find_executable(prog, environ, p.cwd, execs)
       IN  procs' = [procs EXCEPT ![i] =
               IF full = None THEN CommandNotFound(p, prog)
               ELSE [p EXCEPT !.pc = "exec", !.full = full]]
    /\ UNCHANGED << envVars, parentVars, files >>

\* Lines 183-187.
ChildExec(i) ==
    /\ i \in Stages
    /\ procs[i].pc = "exec"
    /\ LET p == procs[i] IN
       procs' = [procs EXCEPT ![i] =
           IF AbsPath(p.full, p.cwd) \in BadFormat
           THEN CommandNotFound(p, Cmd(i).args[1])
           ELSE [p EXCEPT !.pc = "running", !.fds = CloseOnExec(p.fds)]]
    /\ UNCHANGED << envVars, parentVars, files >>

\* The executed program ends by itself.
ProgExit(i, code) ==
    /\ i \in Stages
    /\ procs[i].pc = "running"
    /\ procs' = [procs EXCEPT ![i] = Terminated(@, Exited(code), @.msg)]
    /\ UNCHANGED << envVars, parentVars, files >>

\* A signal ends the child, before or after the exec.
Kill(i) ==
    /\ i \in Stages
    /\ Live(procs[i])
    /\ procs' = [procs EXCEPT ![i] = Terminated(@, Signaled, @.msg)]
    /\ UNCHANGED << envVars, parentVars, files >>

\* ------------------------------------------------------------------------
\* The driver (shell.py 221-273) and run_pipeline's parent side (121-218)
\* ------------------------------------------------------------------------
\* The lines the driver may read:
\*   'a'                                      one stage
\*   'a | a'                                  two stages
\*   'a < f > g | a < f > g | a < f >> g'     three stages, redirections on every stage
\*   'a < f > g'                              one stage, both redirections
\*   'a < h'                                  stdin from a file that does not exist
\*   'a > n/o'                                stdout to a file in a directory that does not exist
\*   'x'                                      no such command
\*   'b'                                      a command execve cannot load
\*   'a | x'                                  the last stage fails
\*   'a &'                                    background
\*   'a | a &'                                background pipeline
\*   'a >> g > g'                             append, then truncate
\*   'a | a | a | a | a'                      more pipes than the descriptor table holds
\*   'cd /t'                                  builtin cd
\*   'cd'                                     cd to HOME
\*   'cd /q'                                  cd to a directory that does not exist
\*   'exit 3'                                 builtin exit
\*   ''                                       empty line
\*   ' & '                                    only an ampersand
\*   '|'                                      only a pipe
\*   '> f'                                    only a redirection
\*   'exit | cd /t'                           the builtins' names as stages of a pipeline
\*   'a < h > g'                              stdin cannot be opened, stdout could
\*   'x > g'                                  no such command, stdout to a file
Lines == {
    << "a" >>,
    << "a", " ", "|", " ", "a" >>,
    << "a", " ", "<", " ", "f", " ", ">", " ", "g", " ", "|", " ", "a", " ", "<", " ", "f", " ", ">", " ", "g", " ", "|", " ", "a", " ", "<", " ", "f", " ", ">", ">", " ", "g" >>,
    << "a", " ", "<", " ", "f", " ", ">", " ", "g" >>,
    << "a", " ", "<", " ", "h" >>,
    << "a", " ", ">", " ", "n", "/", "o" >>,
    << "x" >>,
    << "b" >>,
    << "a", " ", "|", " ", "x" >>,
    << "a", " ", "&" >>,
    << "a", " ", "|", " ", "a", " ", "&" >>,
    << "a", " ", ">", ">", " ", "g", " ", ">", " ", "g" >>,
    << "a", " ", "|", " ", "a", " ", "|", " ", "a", " ", "|", " ", "a", " ", "|", " ", "a" >>,
    << "c", "d", " ", "/", "t" >>,
    << "c", "d" >>,
    << "c", "d", " ", "/", "q" >>,
    << "e", "x", "i", "t", " ", "3" >>,
    << >>,
    << " ", "&", " " >>,
    << "|" >>,
    << ">", " ", "f" >>,
    << "e", "x", "i", "t", " ", "|", " ", "c", "d", " ", "/", "t" >>,
    << "a", " ", "<", " ", "h", " ", ">", " ", "g" >>,
    << "x", " ", ">", " ", "g" >>
}

AMP == "&"

\* Lines 239-243: the background flag and the line without its trailing '&'.
IsBackground(line) == line # << >> /\ line[Len(line)] = AMP
StripAmpersand(line) ==
    IF IsBackground(line) THEN Strip(SubSeq(line, 1, Len(line) - 1)) ELSE line

W_EXIT == << "e", "x", "i", "t" >>
W_CD == << "c", "d" >>

\* 'exit' as the first stage of any pipeline is the builtin.
IsExit_FirstStage(cs) == cs[1].args[1] = W_EXIT

\* Lines 251-253.
IsExit(cs) == Len(cs) = 1 /\ cs[1].args[1] = W_EXIT
\* Lines 251 and 255.
IsCd(cs) == Len(cs) = 1 /\ cs[1].args[1] = W_CD
\* Line 257.
CdTarget(args, env) ==
    IF Len(args) > 1 THEN args[2] ELSE environ_get(env, "HOME", << SLASH >>)

\* One message of main on stderr.
Message(ln, bg, what, status) ==
    [line |-> ln, bg |-> bg, what |-> what, status |-> status]

\* No value: run_pipeline has not returned for the current line.
NoStatus == << >>

\* Only an empty line is skipped.
NothingToRun_EmptyLine(line, cs) == line = << >>

\* Lines 236 and 247: the line is empty, or its pipeline is.
NothingToRun(line, cs) == line = << >> \/ cs = << >>

\* Lines 232-264: read a line and handle it up to the call of run_pipeline
\* (which starts by creating the pipes, or by forking when there is none).
\* What the loop body keeps per line (background, cmds, the status, and
\* run_pipeline's locals) starts afresh with every line, as does the record
\* of what main printed for the line.  The children of the line before are
\* no longer followed: the shell shares no pipe with them and never names
\* their pids again.
ReadLine(l) ==
    /\ mpc = "read"
    /\ lineNo < MaxLines
    /\ lineNo' = lineNo + 1
    /\ procs' = << >>
    /\ pipes' = << >>
    /\ pids' = << >>
    /\ exit_codes' = << >>
    /\ waited' = << >>
    /\ ret' = NoStatus
    /\ LET line == Strip(l)
           bg == IsBackground(line)
           toks == tokenize(StripAmpersand(line))
           cs == ParseTokens(toks)
           target == AbsPath(CdTarget(cs[1].args, environ), cwd)
       IN  /\ background' = bg
           /\ cmdline' = StripAmpersand(line)
           /\ tokens' = toks
           /\ cmds' = cs
           /\ IF NothingToRun(line, cs)
              THEN /\ stderr' = << >>
                   /\ UNCHANGED << mpc, cwd >>
              ELSE IF IsExit(cs)
              THEN /\ mpc' = "exited"
                   /\ stderr' = << >>
                   /\ UNCHANGED cwd
              ELSE IF IsCd(cs)
              THEN /\ cwd' = IF target \in Dirs THEN target ELSE cwd
                   /\ stderr' = IF target \in Dirs THEN << >>
                                ELSE << Message(lineNo + 1, bg, "cd", 0) >>
                   /\ UNCHANGED mpc
              ELSE /\ mpc' = IF Len(cs) > 1 THEN "pipes" ELSE "fork"
                   /\ stderr' = << >>
                   /\ UNCHANGED cwd
    /\ UNCHANGED << envVars, files, fds >>

\* Lines 232-234: end of input.
ReadEOF ==
    /\ mpc = "read"
    /\ mpc' = "exited"
    /\ UNCHANGED << envVars, files, cmdline, lineNo, cwd, fds, background, tokens, cmds,
                    pipes, pids, exit_codes, waited, ret, stderr, procs >>

\* An OSError nothing catches ends the shell.
Crash ==
    /\ mpc' = "crashed"
    /\ fds' = NoFds

\* The forks begin as soon as one pipe is made.
AfterPipe_ForkAtOnce(made, wanted) == "fork"

\* Lines 127 and 131: the loop of os.pipe() ends before the loop of forks.
AfterPipe(made, wanted) == IF made = wanted THEN "fork" ELSE "pipes"

\* Lines 126-128: one os.pipe(); the last one leads on to the forks.
MakePipe ==
    /\ mpc = "pipes"
    /\ IF Cardinality(FreeFds(fds)) < 2
       THEN /\ Crash
            /\ UNCHANGED pipes
       ELSE LET r == LowestFree(fds)
                t1 == OpenAt(fds, r, ReadEnd(lineNo, Len(pipes)))
                w == LowestFree(t1)
            IN  /\ fds' = OpenAt(t1, w, WriteEnd(lineNo, Len(pipes)))
                /\ pipes' = Append(pipes, << r, w >>)
                /\ mpc' = AfterPipe(Len(pipes) + 1, n - 1)
    /\ UNCHANGED << envVars, files, cmdline, lineNo, cwd, background, tokens, cmds, pids,
                    exit_codes, waited, ret, stderr, procs >>

\* Lines 131-132 and 189: fork the next stage; after the last, the close loop.
Fork ==
    /\ mpc = "fork"
    /\ LET i == Len(pids) IN
       /\ procs' = (i :> NewChild(fds, cwd)) @@ procs
       /\ pids' = Append(pids, i)
       /\ mpc' = IF i = n - 1 THEN "close" ELSE "fork"
    /\ UNCHANGED << envVars, files, cmdline, lineNo, cwd, fds, background, tokens, cmds,
                    pipes, exit_codes, waited, ret, stderr >>

\* Line 132: os.fork() fails.
ForkFail ==
    /\ mpc = "fork"
    /\ Crash
    /\ UNCHANGED << envVars, files, cmdline, lineNo, cwd, background, tokens, cmds, pipes,
                    pids, exit_codes, waited, ret, stderr, procs >>

\* The parent closes the read ends only.
RECURSIVE ParentCloseFds_ReadEnds(_, _)
ParentCloseFds_ReadEnds(t, ps) ==
    IF ps = << >> THEN t
    ELSE ParentCloseFds_ReadEnds(Close(t, Head(ps)[1]), Tail(ps))

\* The parent closes nothing.
ParentCloseFds_None(t, ps) == t

\* Lines 191-200: the parent's close loop.
ParentCloseFds(t, ps) == CloseAll(t, ps)

\* A background pipeline is waited for all the same.
ReturnsWithoutWaiting_Never(bg) == FALSE

\* Line 203: a background pipeline is not waited for.
ReturnsWithoutWaiting(bg) == bg

\* Lines 191-205: close the pipes; a background pipeline returns 0 at once.
ParentClose ==
    /\ mpc = "close"
    /\ fds' = ParentCloseFds(fds, pipes)
    /\ IF ReturnsWithoutWaiting(background)
       THEN /\ ret' = << 0 >>
            /\ mpc' = "returned"
       ELSE /\ mpc' = "wait"
            /\ UNCHANGED ret
    /\ UNCHANGED << envVars, files, cmdline, lineNo, cwd, background, tokens, cmds, pipes,
                    pids, exit_codes, waited, stderr, procs >>

\* The children are waited for last to first.
NextWait_Reverse(ps, codes) == ps[Len(ps) - Len(codes)]

\* Line 207: the pid the next waitpid names.
NextWait(ps, codes) == ps[Len(codes) + 1]

\* A child that did not exit normally counts as status 0.
RecordedStatus_Zero(p) ==
    IF p.pc = "zombie" /\ p.st.how = "exit" THEN p.st.code ELSE 0

\* Lines 209-215: the status recorded for a child that ended; waitpid on a
\* child the kernel already discarded raises ChildProcessError.
RecordedStatus(p) ==
    IF p.pc = "zombie" /\ p.st.how = "exit" THEN p.st.code ELSE 1

\* The status of the first stage is returned.
ReturnValue_First(codes) == IF codes # << >> THEN codes[1] ELSE 0

\* Line 218.
ReturnValue(codes) == IF codes # << >> THEN codes[Len(codes)] ELSE 0

\* Lines 207-218: one waitpid, blocking until the child has ended; after
\* the last one run_pipeline returns.
Wait ==
    /\ mpc = "wait"
    /\ LET pid == NextWait(pids, exit_codes)
           p == procs[pid]
           codes == Append(exit_codes, RecordedStatus(p))
       IN  /\ p.pc \in {"zombie", "gone"}
           /\ procs' = [procs EXCEPT ![pid].pc =
                            IF p.pc = "zombie" THEN "reaped" ELSE "gone"]
           /\ waited' = Append(waited, pid)
           /\ exit_codes' = codes
           /\ IF Len(codes) = Len(pids)
              THEN /\ ret' = << ReturnValue(codes) >>
                   /\ mpc' = "returned"
              ELSE UNCHANGED << ret, mpc >>
    /\ UNCHANGED << envVars, files, cmdline, lineNo, cwd, fds, background, tokens, cmds,
                    pipes, pids, stderr >>

\* Lines 268-271: KeyboardInterrupt while blocked in waitpid.
Interrupt ==
    /\ mpc = "wait"
    /\ mpc' = "read"
    /\ UNCHANGED << envVars, files, cmdline, lineNo, cwd, fds, background, tokens, cmds,
                    pipes, pids, exit_codes, waited, ret, stderr, procs >>

\* The status is printed whatever it is.
PrintsStatus_Always(status) == TRUE

\* Line 265.
PrintsStatus(status) == status # 0

\* Lines 264-266: after run_pipeline returned.
AfterRun ==
    /\ mpc = "returned"
    /\ mpc' = "read"
    /\ stderr' = IF PrintsStatus(ret[1])
                 THEN Append(stderr,
                          Message(lineNo, background, "terminated", ret[1]))
                 ELSE stderr
    /\ UNCHANGED << envVars, files, cmdline, lineNo, cwd, fds, background, tokens, cmds,
                    pipes, pids, exit_codes, waited, ret, procs >>

\* ------------------------------------------------------------------------
\* The shell with its children
\* ------------------------------------------------------------------------
Init ==
    /\ environ = ("PATH" :> << "/", "b" >>) @@ ("HOME" :> << "/", "t" >>)
    /\ execs = { << "/", "b", "/", "a" >>, << "/", "b", "/", "b" >> }
    /\ files = (<< "/", "w", "/", "f" >> :> "data") @@
               (<< "/", "w", "/", "g" >> :> "data")
    /\ sigchld \in {"default", "ignore"}
    /\ mpc = "read"
    /\ lineNo = 0
    /\ cwd = << "/", "w" >>
    /\ fds = StdFds
    /\ background = FALSE
    /\ cmdline = << >>
    /\ tokens = << >>
    /\ cmds = << >>
    /\ pipes = << >>
    /\ pids = << >>
    /\ exit_codes = << >>
    /\ waited = << >>
    /\ ret = NoStatus
    /\ stderr = << >>
    /\ procs = << >>

Next ==
    \/ \E l \in Lines : ReadLine(l)
    \/ ReadEOF
    \/ MakePipe
    \/ Fork
    \/ ForkFail
    \/ ParentClose
    \/ Wait
    \/ Interrupt
    \/ AfterRun
    \/ \E i \in Stages : ChildStdin(i)
    \/ \E i \in Stages : ChildStdout(i)
    \/ \E i \in Stages : ChildClose(i)
    \/ \E i \in Stages : ChildResolve(i)
    \/ \E i \in Stages : ChildExec(i)
    \/ \E i \in Stages, code \in ExitCodes : ProgExit(i, code)
    \/ \E i \in Stages : Kill(i)

Spec == Init /\ [][Next]_vars

\* ------------------------------------------------------------------------
\* The parser alone, on every token sequence up to MaxTokens
\* ------------------------------------------------------------------------
W_A == << "a" >>
W_F == << "f" >>
TokenAlphabet == {W_A, W_F, T_PIPE, T_OUT, T_APPEND, T_IN}

TokenSeqs == UNION {[1..k -> TokenAlphabet] : k \in 0..MaxTokens}

\* The shell before it reads anything.
ShellIdle ==
    /\ lineNo = 0
    /\ fds = StdFds
    /\ background = FALSE
    /\ pipes = << >>
    /\ pids = << >>
    /\ exit_codes = << >>
    /\ waited = << >>
    /\ ret = NoStatus
    /\ stderr = << >>

InitParse ==
    /\ environ = ("PATH" :> << "/", "b" >>)
    /\ execs = {}
    /\ files = << >>
    /\ sigchld = "default"
    /\ cwd = << "/", "w" >>
    /\ ShellIdle
    /\ mpc = "parse"
    /\ cmdline = << >>
    /\ tokens \in TokenSeqs
    /\ cmds = << >>
    /\ procs = << >>

\* Lines 63-115 applied to the tokens.
Parse ==
    /\ mpc = "parse"
    /\ cmds' = ParseTokens(tokens)
    /\ mpc' = "parsed"
    /\ UNCHANGED << envVars, files, cmdline, lineNo, cwd, fds, background, tokens, pipes,
                    pids, exit_codes, waited, ret, stderr, procs >>

NextParse == Parse

SpecParse == InitParse /\ [][NextParse]_vars

\* ------------------------------------------------------------------------
\* Resolution alone: one child about to resolve its program, for every
\* PATH of up to MaxPathEntries entries, set of executables and directory
\* ------------------------------------------------------------------------
W_P == << "p" >>
D_B == << "/", "b" >>
D_T == << "/", "t" >>
D_W == << "/", "w" >>

\* The entries PATH may hold: two directories and the empty entry.
PathDirs == {D_B, D_T, << >>}

\* ":".join(entries)
RECURSIVE JoinPath(_)
JoinPath(es) ==
    IF es = << >> THEN << >>
    ELSE IF Len(es) = 1 THEN es[1]
    ELSE es[1] \o << COLON >> \o JoinPath(Tail(es))

PathValues ==
    {JoinPath(es) : es \in UNION {[1..k -> PathDirs] : k \in 0..MaxPathEntries}}

Environs == {<< >>} \cup {("PATH" :> v) : v \in PathValues}

\* The program names tried: a bare name and a path.
ProgNames == {W_P, D_B \o << SLASH >> \o W_P}

\* The executables that may exist: p in /b, in /t and in /w.
ExecCandidates == {d \o << SLASH >> \o W_P : d \in {D_B, D_T, D_W}}

InitResolve ==
    /\ environ \in Environs
    /\ execs \in SUBSET ExecCandidates
    /\ files = << >>
    /\ sigchld = "default"
    /\ cwd \in {D_W, D_T}
    /\ ShellIdle
    /\ mpc = "wait"
    /\ cmdline = << >>
    /\ tokens = << >>
    /\ \E prog \in ProgNames : cmds = << [EmptyCmd EXCEPT !.args = << prog >>] >>
    /\ procs = (0 :> [NewChild(StdFds, cwd) EXCEPT !.pc = "resolve"])

NextResolve ==
    \/ ChildResolve(0)
    \/ ChildExec(0)

SpecResolve == InitResolve /\ [][NextResolve]_vars

\* ------------------------------------------------------------------------
\* parse_pipeline alone, on every line of up to MaxChars characters
\* ------------------------------------------------------------------------
\* The characters of the lines: a letter, white space, the operators, both
\* quotes and the backslash.
Chars == {"a", SP, "|", "<", ">", DQUOTE, SQUOTE, BSLASH}

CharSeqs == UNION {[1..k -> Chars] : k \in 0..MaxChars}

InitTokenize ==
    /\ environ = ("PATH" :> << "/", "b" >>)
    /\ execs = {}
    /\ files = << >>
    /\ sigchld = "default"
    /\ cwd = << "/", "w" >>
    /\ ShellIdle
    /\ mpc = "tokenize"
    /\ cmdline \in CharSeqs
    /\ tokens = << >>
    /\ cmds = << >>
    /\ procs = << >>

\* Line 62.
Tokenize ==
    /\ mpc = "tokenize"
    /\ tokens' = tokenize(cmdline)
    /\ mpc' = "parse"
    /\ UNCHANGED << envVars, files, cmdline, lineNo, cwd, fds, background, cmds,
                    pipes, pids, exit_codes, waited, ret, stderr, procs >>

NextTokenize ==
    \/ Tokenize
    \/ Parse

SpecTokenize == InitTokenize /\ [][NextTokenize]_vars

\* ------------------------------------------------------------------------
\* Properties
\* ------------------------------------------------------------------------
\* The descriptors of the shell through which obj is open.
ShellHolds(obj) == {fd \in Fds : fds[fd].obj = obj}

\* Every << stage, descriptor >> through which obj is open in a child.
Holders(obj) == {h \in Stages \X Fds : procs[h[1]].fds[h[2]].obj = obj}

\* run_pipeline forked every stage and went through its close loop.
CloseLoopDone == pids # << >> /\ Len(pids) = n /\ mpc # "close"
\* No child is still before or in its close loop.
AllWired == \A i \in Stages : procs[i].pc \notin {"stdin", "stdout", "close"}
\* run_pipeline returned for the current line.
Returned == ret # NoStatus

IsPipeEnd(obj) == obj.kind \in {"r", "w"}

\* C1: in a pipeline of n >= 2 stages, once every child is past its close
\* loop and the parent past its own, the write end of pipe k is open only as
\* descriptor 1 of stage k and the read end only as descriptor 0 of stage
\* k+1 (and is open there while that stage lives), so that nothing but
\* stage k keeps the reader of pipe k from seeing EOF.
C1_PipeEndsOnlyAtTheirStage ==
    (n >= 2 /\ CloseLoopDone /\ AllWired) =>
        \A k \in 0..(n - 2) :
            /\ ShellHolds(WriteEnd(lineNo, k)) = {}
            /\ ShellHolds(ReadEnd(lineNo, k)) = {}
            /\ Holders(WriteEnd(lineNo, k)) =
                   IF Live(procs[k]) THEN {<< k, 1 >>} ELSE {}
            /\ Holders(ReadEnd(lineNo, k)) =
                   IF Live(procs[k + 1]) THEN {<< k + 1, 0 >>} ELSE {}

\* Three stages, all wired and alive, the parent waiting.
C1_Witness ==
    /\ n = 3 /\ CloseLoopDone /\ AllWired
    /\ \A i \in Stages : Live(procs[i])
    /\ \E i \in Stages : procs[i].pc = "resolve"

\* C2: when run_pipeline has returned, foreground or background, the shell
\* holds no descriptor of any pipe end.
C2_ParentHoldsNoPipeEnd ==
    Returned => \A fd \in Fds : ~IsPipeEnd(fds[fd].obj)

\* run_pipeline returned after creating two pipes.
C2_Witness == mpc = "returned" /\ Len(pipes) = 2 /\ Len(pids) = 3

\* C3: when a foreground run_pipeline has returned, waitpid has been called
\* on every child, in spawn order, and no child is left running or a zombie.
C3_ForegroundReapsInSpawnOrder ==
    (Returned /\ ~background) =>
        /\ Len(pids) = n
        /\ waited = pids
        /\ \A k \in 1..Len(pids) : pids[k] = k - 1
        /\ \A i \in Stages : procs[i].pc \in {"reaped", "gone"}

\* A foreground pipeline of three stages returned, its children reaped.
C3_Witness ==
    /\ mpc = "returned" /\ ~background /\ n = 3
    /\ \A i \in Stages : procs[i].pc = "reaped"

\* C4: a background run_pipeline returns 0 once every stage is forked,
\* without a single waitpid, and main prints no "Program terminated" for
\* the line, whatever the children end with.
C4_BackgroundReturnsZeroUnwaited ==
    background =>
        /\ Returned => (ret = << 0 >> /\ waited = << >> /\ exit_codes = << >>
                        /\ Len(pids) = n)
        /\ \A k \in DOMAIN stderr : stderr[k].what # "terminated"

\* A background line is done with, main is back at reading, and a child
\* has ended with a nonzero status while another still runs.
C4_Witness ==
    /\ background /\ Returned /\ mpc = "read"
    /\ \E i \in Stages : procs[i].st = Exited(2)
    /\ \E i \in Stages : Live(procs[i])

\* The status line 209-215 records for a stage, seen after the fact: the
\* exit status if waitpid returned it and the child had exited normally,
\* 1 if it was killed by a signal or waitpid failed.
StageStatus(p) ==
    IF p.pc = "reaped" /\ p.st.how = "exit" THEN p.st.code ELSE 1

\* C5: a foreground run_pipeline returns the status recorded for the last
\* stage, whatever the earlier stages ended with.
C5_ReturnsLastStageStatus ==
    (Returned /\ ~background) => ret = << StageStatus(procs[n - 1]) >>

\* The last of three stages exited with 2, the first was killed, the second
\* exited with 0.
C5_Witness ==
    /\ Returned /\ ~background /\ n = 3
    /\ procs[0].st = Signaled
    /\ procs[1].st = Exited(0)
    /\ procs[2].st = Exited(2)
    /\ ret = << 2 >>

\* The last stage was killed by a signal, or the wait on it failed.
LastStageAbnormal ==
    procs[n - 1].st.how = "signal" \/ procs[n - 1].pc = "gone"

\* C6 as stated: a foreground run_pipeline whose last stage was killed by a
\* signal, or could not be waited for, returns 0.
C6_AbnormalLastStageReturnsZero ==
    (Returned /\ ~background /\ LastStageAbnormal) => ret = << 0 >>

\* C6 amended: a foreground run_pipeline whose last stage was killed by a
\* signal, or could not be waited for, returns 1.
C6_AbnormalLastStageReturnsOne ==
    (Returned /\ ~background /\ LastStageAbnormal) => ret = << 1 >>

\* A foreground pipeline returned after its last stage was killed.
C6_Witness ==
    /\ Returned /\ ~background /\ n = 2
    /\ procs[1].st = Signaled /\ procs[1].pc = "reaped"
    /\ procs[0].st = Exited(0)

HasSlash(cmd) == \E k \in 1..Len(cmd) : cmd[k] = SLASH

\* C7: a name without '/' is resolved only if PATH is set, and only to
\* <dir>/<name> for a non-empty entry dir of PATH: with PATH unset, and for
\* an empty entry, nothing is looked up.
C7_OnlyNonEmptyPathEntriesSearched ==
    \A i \in Stages :
        (procs[i].pc \in {"exec", "running"} /\ ~HasSlash(Cmd(i).args[1])) =>
            /\ "PATH" \in DOMAIN environ
            /\ \E k \in DOMAIN PathEntries(environ) :
                   /\ PathEntries(environ)[k] # << >>
                   /\ procs[i].full =
                          path_join(PathEntries(environ)[k], Cmd(i).args[1])

IsRedirection(t) == t \in {T_OUT, T_APPEND, T_IN}

\* The words of a segment that are neither a redirection operator nor the
\* token after one.
RECURSIVE WordsOutsideRedirections(_)
WordsOutsideRedirections(seg) ==
    IF seg = << >> THEN << >>
    ELSE IF IsRedirection(Head(seg))
         THEN WordsOutsideRedirections(SubSeq(seg, 3, Len(seg)))
         ELSE << Head(seg) >> \o WordsOutsideRedirections(Tail(seg))

HasWord(seg) == WordsOutsideRedirections(seg) # << >>

\* The segments of the tokens that have a word, in order.
WordSegments == SelectSeq(SplitSegments(tokens, << >>), HasWord)

Range(f) == {f[x] : x \in DOMAIN f}

\* C8: every record of the parsed pipeline has args; there is one record
\* per segment that has a word outside redirections, in order, with those
\* words as args and with no redirection target but that segment's own.
C8_RecordsHaveArgs ==
    mpc = "parsed" =>
        /\ \A k \in DOMAIN cmds : cmds[k].args # << >>
        /\ Len(cmds) = Len(WordSegments)
        /\ \A k \in DOMAIN cmds :
               /\ cmds[k].args = WordsOutsideRedirections(WordSegments[k])
               /\ {cmds[k].in, cmds[k].out} \subseteq
                      Range(WordSegments[k]) \cup {None}

\* A segment made of a redirection and its target was dropped, and a
\* segment with a word was kept.
C8_Witness ==
    /\ mpc = "parsed"
    /\ cmds # << >>
    /\ \E k \in DOMAIN SplitSegments(tokens, << >>) :
           LET seg == SplitSegments(tokens, << >>)[k] IN
           Len(seg) = 2 /\ IsRedirection(seg[1]) /\ ~HasWord(seg)

\* Whether the last output redirection of a segment that has a target is
\* '>>' (cur: nothing seen yet counts as not appending).
RECURSIVE LastOutputAppends(_, _)
LastOutputAppends(seg, cur) ==
    IF seg = << >> THEN cur
    ELSE IF IsRedirection(Head(seg))
         THEN LastOutputAppends(SubSeq(seg, 3, Len(seg)),
                  IF Len(seg) < 2 \/ Head(seg) = T_IN THEN cur
                  ELSE Head(seg) = T_APPEND)
         ELSE LastOutputAppends(Tail(seg), cur)

\* C9: a record's stdout_append tells whether the last output redirection
\* of its segment that has a target is '>>': a later '>' clears it.
C9_AppendFollowsLastRedirection ==
    mpc = "parsed" =>
        \A k \in DOMAIN cmds :
            k <= Len(WordSegments) =>
                cmds[k].append = LastOutputAppends(WordSegments[k], FALSE)

\* C10: when a stage's program is executed, descriptor 0 of a stage i > 0 is
\* the read end of pipe i-1 and descriptor 1 of a stage i < n-1 is the write
\* end of pipe i, whatever files its record names; a file is open only as
\* descriptor 0 of stage 0 (its stdin_path) or as descriptor 1 of stage n-1
\* (its stdout_path), and without a path those are the shell's own.
C10_PipesOverrideFiles ==
    \A i \in Stages :
        procs[i].pc \in {"exec", "running"} =>
            LET t == procs[i].fds
                c == Cmd(i)
            IN  /\ t[0].obj =
                       IF i > 0 THEN ReadEnd(lineNo, i - 1)
                       ELSE IF c.in # None
                            THEN FileObj(AbsPath(c.in, procs[i].cwd), "r")
                       ELSE Tty
                /\ t[1].obj =
                       IF i < n - 1 THEN WriteEnd(lineNo, i)
                       ELSE IF c.out # None
                            THEN FileObj(AbsPath(c.out, procs[i].cwd), OpenMode(c))
                       ELSE Tty
                /\ \A fd \in Fds \ {0, 1} : t[fd].obj.kind # "file"

\* The middle of three stages is executed; its record names both files.
C10_Witness ==
    /\ n = 3
    /\ Stages = 0..2
    /\ procs[1].pc = "running"
    /\ Cmd(1).in # None /\ Cmd(1).out # None
    /\ Cmd(0).out # None /\ Cmd(2).in # None
    /\ procs[0].pc = "running" /\ procs[2].pc = "running"

\* The step of main that reads one more line.
ReadsLine == lineNo' = lineNo + 1

\* The current line is a one-stage pipeline whose args[0] is word.
IsBuiltinLine(word) == n = 1 /\ Cmd(0).args[1] = word

\* Nothing of run_pipeline happened for the current line.
NotRun ==
    /\ procs = << >>
    /\ pids = << >>
    /\ pipes = << >>
    /\ ~Returned
    /\ mpc \notin {"pipes", "fork", "close", "wait", "returned"}

\* The directory 'cd' names in the line just read, as the shell resolves it.
CdDirectory == AbsPath(CdTarget(cmds'[1].args, environ), cwd)

\* C11: a one-stage pipeline whose args[0] is 'exit' or 'cd' never reaches
\* run_pipeline (no pipe, no fork); 'exit' ends the shell normally (status
\* 0) whatever its other arguments; a 'cd' to a directory that exists makes
\* it the shell's directory, and every child starts in the shell's
\* directory; a line of two stages or more goes to run_pipeline with the
\* directory unchanged, whatever the names of its stages.
C11_BuiltinsHandledInShell ==
    /\ [](IsBuiltinLine(W_EXIT) => (NotRun /\ mpc = "exited"))
    /\ [](IsBuiltinLine(W_CD) => (NotRun /\ mpc \in {"read", "exited"}))
    /\ [](\A i \in Stages : procs[i].cwd = cwd)
    /\ [][(ReadsLine /\ Len(cmds') = 1 /\ cmds'[1].args[1] = W_CD
               /\ CdDirectory \in Dirs) => cwd' = CdDirectory]_vars
    /\ [][(ReadsLine /\ Len(cmds') >= 2) => (mpc' = "pipes" /\ cwd' = cwd)]_vars

\* After 'cd /t' on the first line, a child of the second line runs its
\* program in /t.
C11_Witness ==
    /\ lineNo = 2
    /\ cwd = D_T
    /\ \E i \in Stages : procs[i].pc = "running" /\ procs[i].cwd = D_T

\* The stages 'exit' and 'cd' of a two-stage pipeline were forked and
\* ended as commands not found.
C11_WitnessPipeline ==
    /\ n = 2
    /\ Stages = 0..1
    /\ Cmd(0).args[1] = W_EXIT /\ procs[0].msg = W_EXIT
    /\ Cmd(1).args[1] = W_CD /\ procs[1].msg = W_CD
    /\ cwd = D_W

IsTermination(m) == m.what = "terminated"

\* The "Program terminated with exit code N." messages of the current line.
Terminations == SelectSeq(stderr, IsTermination)

\* C12: when main is done with a line, it has printed "Program terminated
\* with exit code N." once if run_pipeline was called for the line, in the
\* foreground, and returned N # 0, and not at all otherwise (status 0,
\* background, builtin, empty pipeline, interrupted wait); it prints nothing
\* of the kind before run_pipeline has returned.
C12_TerminationPrintedOnceIffNonzero ==
    IF mpc \in {"read", "exited"}
    THEN Terminations =
             IF Returned /\ ~background /\ ret[1] # 0
             THEN << Message(lineNo, FALSE, "terminated", ret[1]) >>
             ELSE << >>
    ELSE Terminations = << >>

\* A foreground pipeline of two stages returned 2 and main, back at
\* reading, has printed that once.
C12_Witness ==
    /\ mpc = "read"
    /\ n = 2
    /\ ret = << 2 >>
    /\ stderr = << Message(lineNo, FALSE, "terminated", 2) >>

\* A foreground pipeline returned 0 and main is back at reading.
C12_WitnessZero == mpc = "read" /\ ~background /\ ret = << 0 >> /\ pids # << >>

\* run_pipeline is running or has just returned.
InRunPipeline == mpc \in {"pipes", "fork", "close", "wait", "returned"}

\* C13: when the line read parses to an empty pipeline (an empty line, only
\* '&', only '|', only redirections) main creates no process and no pipe,
\* prints nothing to stderr, keeps its directory and its descriptors, and
\* is back at reading the next line; run_pipeline is never entered with an
\* empty pipeline.
C13_EmptyPipelineSkipped ==
    /\ []((lineNo > 0 /\ cmds = << >>) =>
              (NotRun /\ stderr = << >> /\ mpc \in {"read", "exited"}))
    /\ [](InRunPipeline => cmds # << >>)
    /\ [][(ReadsLine /\ cmds' = << >>) =>
              (mpc' = "read" /\ cwd' = cwd /\ fds' = fds /\ files' = files)]_vars

\* The second line held only a redirection; the first was a 'cd' that
\* moved the shell to /t, where it still is.
C13_Witness ==
    /\ lineNo = 2
    /\ tokens = << T_OUT, W_F >>
    /\ cmds = << >>
    /\ cwd = D_T
    /\ mpc = "read"

\* The position at which the scan of s from pos on ends: past the end of s
\* when every character was consumed, else the first character, after white
\* space, at which none of the four shapes matches.
RECURSIVE StopPos(_, _)
StopPos(s, pos) ==
    IF pos > Len(s) THEN Len(s) + 1
    ELSE LET m == TokenMatch(s, pos) IN
         IF m.end = NoMatch THEN SkipSpace(s, pos) ELSE StopPos(s, m.end)

\* The text of s from p on opens a quotation that no shape matches: the
\* quote is the last character, or the quotation is empty, or the quote is
\* never closed.
QuoteUnmatched(s, p) ==
    /\ s[p] \in {DQUOTE, SQUOTE}
    /\ \/ p = Len(s)
       \/ s[p + 1] = s[p]
       \/ \A k \in (p + 2)..Len(s) : s[k] # s[p]

\* A list of non-empty strings.
IsTokenList(ts) ==
    /\ DOMAIN ts = 1..Len(ts)
    /\ \A k \in DOMAIN ts : ts[k] # << >> /\ DOMAIN ts[k] = 1..Len(ts[k])

\* C14: tokenize yields a list of tokens for every string.  When at some
\* position, after white space, the rest of the text matches none of the
\* four shapes (an unterminated quotation, an empty quoted string), the
\* result is what the text before that position gives, that text being
\* consumed whole: what follows is dropped, and nothing is printed.
C14_TokenizeStopsAtNoMatch ==
    /\ mpc = "tokenize" => IsTokenList(tokenize(cmdline))
    /\ mpc \in {"parse", "parsed"} =>
           LET p == StopPos(cmdline, 1)
               before == SubSeq(cmdline, 1, p - 1)
           IN  /\ IsTokenList(tokens)
               /\ tokens = tokenize(before)
               /\ StopPos(before, 1) = p
               /\ p <= Len(cmdline) => QuoteUnmatched(cmdline, p)
               /\ stderr = << >>

\* The line 'a ""a': the empty quoted string stops the scan, the 'a' after
\* it is dropped.
C14_Witness ==
    /\ mpc = "parse"
    /\ cmdline = << "a", SP, DQUOTE, DQUOTE, "a" >>
    /\ tokens = << W_A >>

\* Table t holds both ends of every pipe of the current pipeline, at the
\* descriptors the pipes list names.
HoldsEveryPipe(t) ==
    \A k \in 0..(n - 2) :
        /\ t[PipeR(k)].obj = ReadEnd(lineNo, k)
        /\ t[PipeW(k)].obj = WriteEnd(lineNo, k)

\* C15: the n-1 pipes all exist before the first fork; the stages are
\* forked left to right; the shell closes no pipe end before the last stage
\* is forked, so each child starts with both ends of every pipe and no
\* child ever fails to wire a pipe end to its stdin or stdout.
C15_PipesBeforeForksBeforeCloses ==
    /\ (mpc \in {"fork", "close"} \/ pids # << >>) => Len(pipes) = n - 1
    /\ \A k \in DOMAIN pids : pids[k] = k - 1
    /\ Stages = {k - 1 : k \in DOMAIN pids}
    /\ mpc \in {"fork", "close"} => HoldsEveryPipe(fds)
    /\ \A i \in Stages :
           /\ procs[i].pc = "stdin" => HoldsEveryPipe(procs[i].fds)
           /\ ~(procs[i].st = Exited(1) /\ procs[i].msg = None)

\* Of three stages two are forked: the first runs its program, the second
\* has just been forked, and the shell still holds both pipes.
C15_Witness ==
    /\ n = 3
    /\ mpc = "fork"
    /\ Stages = 0..1
    /\ procs[0].pc = "running"
    /\ procs[1].pc = "stdin"
    /\ Len(pipes) = 2

\* The name in the message stage i is bound to end with, from the files and
\* executables there are: its stdin_path or stdout_path if that cannot be
\* opened, else args[0] if it is not resolved or cannot be executed; None
\* when nothing fails.
FailureOf(i) ==
    LET c == Cmd(i)
        p == procs[i]
        full == find_executable(c.args[1], environ, p.cwd, execs)
    IN  IF i = 0 /\ c.in # None /\ AbsPath(c.in, p.cwd) \notin DOMAIN files
        THEN c.in
        ELSE IF i = n - 1 /\ c.out # None
                  /\ (DirName(AbsPath(c.out, p.cwd)) \notin Dirs
                      \/ AbsPath(c.out, p.cwd) \in Dirs)
        THEN c.out
        ELSE IF full = None THEN c.args[1]
        ELSE IF AbsPath(full, p.cwd) \in BadFormat THEN c.args[1]
        ELSE None

Ended(p) == p.pc \in {"zombie", "gone", "reaped"}

\* A child passes from no message to a message.
ChildFails(i) ==
    i \in DOMAIN procs' /\ procs[i].msg = None /\ procs'[i].msg # None

\* C16: a child whose stdin_path or stdout_path cannot be opened, whose
\* args[0] is not resolved or whose exec fails never runs a program and,
\* unless a signal ends it first, ends with "<name>: command not found" and
\* status 1; no other child prints the message.  The step changes nothing
\* in the shell, which forks every stage all the same; a foreground
\* pipeline of one stage with such a failure returns 1.
C16_ChildFailuresExitOne ==
    /\ [](\A i \in Stages :
              IF FailureOf(i) # None
              THEN /\ procs[i].pc # "running"
                   /\ (Ended(procs[i]) /\ procs[i].st.how = "exit") =>
                          (procs[i].st = Exited(1) /\ procs[i].msg = FailureOf(i))
              ELSE procs[i].msg = None)
    /\ []((Returned /\ ~background /\ n = 1 /\ FailureOf(0) # None) =>
              ret = << 1 >>)
    /\ []((Returned /\ pids # << >>) => Len(pids) = n)
    /\ [][(\E i \in Stages : ChildFails(i)) => UNCHANGED parentVars]_vars

\* 'a < h' in the foreground: the child could not open h, said so and
\* exited 1, and run_pipeline returned 1.
C16_Witness ==
    /\ mpc = "returned"
    /\ ~background
    /\ n = 1
    /\ Stages = {0}
    /\ Cmd(0).in = << "h" >>
    /\ procs[0].msg = << "h" >>
    /\ procs[0].st = Exited(1)
    /\ ret = << 1 >>

\* The first of two stages failed and the second was forked after that.
C16_WitnessForksOn ==
    /\ n = 2
    /\ mpc = "fork"
    /\ Stages = {0}
    /\ procs[0].msg # None

\* The path of the direction operator op redirects, in record c.
PathOf(c, op) == IF op = T_IN THEN c.in ELSE c.out

Last(seg) == seg[Len(seg)]

\* The scan of seg from position i on reaches the last token as an
\* operator: the token is not the path of the operator before it.
RECURSIVE EndsInOperator(_, _)
EndsInOperator(seg, i) ==
    IF i > Len(seg) THEN FALSE
    ELSE IF IsRedirection(seg[i])
         THEN (i = Len(seg) \/ EndsInOperator(seg, i + 2))
         ELSE EndsInOperator(seg, i + 1)

NoOperatorInArgs(c) == \A j \in DOMAIN c.args : ~IsRedirection(c.args[j])

\* C17 as stated: when the last token of a segment is '<', '>' or '>>', the
\* record has no operator in args and the path of that direction is unset.
C17_LastOperatorLeavesPathUnset ==
    mpc = "parsed" =>
        \A k \in DOMAIN cmds :
            (k <= Len(WordSegments) /\ IsRedirection(Last(WordSegments[k]))) =>
                /\ NoOperatorInArgs(cmds[k])
                /\ PathOf(cmds[k], Last(WordSegments[k])) = None

\* C17 amended: when the scan of a segment reaches its last token as a
\* redirection operator (the token is not the path of the operator before
\* it), the record is the one the segment without that token gives, with
\* the path of that direction unset, and has no operator in args.
C17_DanglingOperatorLeavesPathUnset ==
    mpc = "parsed" =>
        \A k \in DOMAIN cmds :
            (k <= Len(WordSegments) /\ EndsInOperator(WordSegments[k], 1)) =>
                LET seg == WordSegments[k]
                    c == ParseSegment(SubSeq(seg, 1, Len(seg) - 1))
                IN  /\ NoOperatorInArgs(cmds[k])
                    /\ PathOf(cmds[k], Last(seg)) = None
                    /\ cmds[k] = IF Last(seg) = T_IN THEN [c EXCEPT !.in = None]
                                 ELSE [c EXCEPT !.out = None]

\* 'a > f >': the dangling '>' unsets the path the first '>' had set.
C17_Witness ==
    /\ mpc = "parsed"
    /\ tokens = << W_A, T_OUT, W_F, T_OUT >>
    /\ cmds = << [args |-> << W_A >>, in |-> None, out |-> None,
                  append |-> FALSE] >>

\* The steps of a child, each with the one that follows it.
StepOrder ==
    { << "stdin", "stdout" >>, << "stdout", "close" >>, << "close", "resolve" >>,
      << "resolve", "exec" >>, << "exec", "running" >> }

\* The one stage of the pipeline names a stdin_path that cannot be opened.
StdinUnopenable ==
    /\ n = 1
    /\ Stages = {0}
    /\ Cmd(0).in # None
    /\ AbsPath(Cmd(0).in, procs[0].cwd) \notin DOMAIN files

\* C18: a child goes through stdin wiring, stdout wiring, closing the pipe
\* ends, resolving args[0] and exec in this order, and files are created or
\* truncated in the stdout wiring only.  So in a pipeline of one stage whose
\* stdin_path cannot be opened no file is created or truncated, whereas a
\* child that ends because args[0] is not resolved (or not executed) has
\* created its stdout_path before, and emptied it unless it appends.
C18_ChildStepsInOrder ==
    /\ [][\A i \in Stages :
              (i \in DOMAIN procs' /\ procs'[i].pc # procs[i].pc) =>
                  \/ << procs[i].pc, procs'[i].pc >> \in StepOrder
                  \/ ~Live(procs'[i])]_vars
    /\ [][files' # files =>
              \E i \in Stages : procs[i].pc = "stdout" /\ procs'[i].pc = "close"]_vars
    /\ [][StdinUnopenable => files' = files]_vars
    /\ [](\A i \in Stages :
              (n = 1 /\ Cmd(i).out # None /\ Cmd(i).args[1] # Cmd(i).out
                   /\ procs[i].msg = Cmd(i).args[1]) =>
                  LET path == AbsPath(Cmd(i).out, procs[i].cwd) IN
                  /\ path \in DOMAIN files
                  /\ ~Cmd(i).append => files[path] = "empty")

\* 'x > g' on the first line: the child emptied g, then found no x.
C18_Witness ==
    /\ lineNo = 1
    /\ n = 1
    /\ Stages = {0}
    /\ Cmd(0).args = << << "x" >> >>
    /\ Cmd(0).out = << "g" >>
    /\ procs[0].msg = << "x" >>
    /\ files[<< "/", "w", "/", "g" >>] = "empty"

\* 'a < h > g' on the first line: the child could not open h and ended; g
\* is as it was.
C18_WitnessStdin ==
    /\ lineNo = 1
    /\ StdinUnopenable
    /\ Cmd(0).out = << "g" >>
    /\ procs[0].msg = << "h" >>
    /\ files[<< "/", "w", "/", "g" >>] = "data"

\* ------------------------------------------------------------------------
\* Foreground pipelines of programs that end at end of input, under fair
\* scheduling, without SIGINT and without a failing fork
\* ------------------------------------------------------------------------
\* 'a', 'a | a', the three stages with redirections, 'a | x', 'a < h',
\* 'exit | cd /t'.
LiveLines ==
    {l \in Lines : /\ ~IsBackground(Strip(l))
                   /\ Len(parse_pipeline(l)) \in 1..3
                   /\ \/ Len(parse_pipeline(l)) > 1
                      \/ /\ parse_pipeline(l)[1].args[1] \in {<< "a" >>}
                         /\ parse_pipeline(l)[1].out = None}

\* A read on the stdin of p returns end of file for good: it is not the
\* read end of a pipe whose write end some process holds.
StdinAtEOF(p) ==
    p.fds[0].obj.kind = "r" =>
        /\ ShellHolds(WriteEnd(p.fds[0].obj.line, p.fds[0].obj.pipe)) = {}
        /\ Holders(WriteEnd(p.fds[0].obj.line, p.fds[0].obj.pipe)) = {}

\* A program reads its stdin to the end before it ends (stage 0, whose
\* stdin is no pipe, ends by itself).
ProgExitAtEOF(i, code) ==
    /\ i \in Stages
    /\ StdinAtEOF(procs[i])
    /\ ProgExit(i, code)

\* The steps the process of stage i takes.
ChildAct(i) ==
    \/ ChildStdin(i)
    \/ ChildStdout(i)
    \/ ChildClose(i)
    \/ ChildResolve(i)
    \/ ChildExec(i)
    \/ \E code \in ExitCodes : ProgExitAtEOF(i, code)

\* The steps of the shell inside run_pipeline and back to main's loop.
ParentAct ==
    \/ MakePipe
    \/ Fork
    \/ ParentClose
    \/ Wait
    \/ AfterRun

\* The stage indices a pipeline can have: a pipe takes two descriptors.
StageIds == 0..((MaxFd - 3) \div 2)

NextLive ==
    \/ \E l \in LiveLines : ReadLine(l)
    \/ ReadEOF
    \/ ParentAct
    \/ \E i \in Stages : ChildAct(i)
    \/ \E i \in Stages : Kill(i)

Fairness ==
    /\ WF_vars(ParentAct)
    /\ \A i \in StageIds : WF_vars(ChildAct(i))

SpecLive == Init /\ [][NextLive]_vars /\ Fairness

\* C19: a foreground run_pipeline returns, whatever the order in which the
\* processes are scheduled: no stage waits for ever for the end of a pipe
\* whose write end the shell or another stage keeps open, and waiting in
\* spawn order does not deadlock; main reads the next line only after
\* run_pipeline has returned.
C19_ForegroundPipelineReturns ==
    /\ (InRunPipeline /\ ~background) ~> Returned
    /\ [][(ReadsLine /\ pids # << >>) => Returned]_vars

\* The shell waits for stage 0 of three, which still runs; the two stages
\* after it run too and wait for input.
C19_Witness ==
    /\ mpc = "wait"
    /\ n = 3
    /\ Stages = 0..2
    /\ \A i \in Stages : procs[i].pc = "running"
    /\ ~StdinAtEOF(procs[1])
    /\ ~StdinAtEOF(procs[2])

\* The tokens the scan of s from pos on finds, each as << start, end >>:
\* its first character and the position after its last.
RECURSIVE TokenSpans(_, _)
TokenSpans(s, pos) ==
    IF pos > Len(s) THEN {}
    ELSE LET m == TokenMatch(s, pos) IN
         IF m.end = NoMatch THEN {}
         ELSE {<< SkipSpace(s, pos), m.end >>} \cup TokenSpans(s, m.end)

Operators == {T_PIPE, T_IN, T_OUT, T_APPEND}

\* The tokens of s that are an operator written without quotes.
UnquotedOperators(s) ==
    {sp \in TokenSpans(s, 1) :
         /\ s[sp[1]] \notin {DQUOTE, SQUOTE}
         /\ SubSeq(s, sp[1], sp[2] - 1) \in Operators}

\* s with the text of span sp put between two quotes q.
QuoteSpan(s, sp, q) ==
    SubSeq(s, 1, sp[1] - 1) \o << q >> \o SubSeq(s, sp[1], sp[2] - 1)
        \o << q >> \o SubSeq(s, sp[2], Len(s))

HasBackslash(s) == \E k \in DOMAIN s : s[k] = BSLASH

\* C20 as stated: for every line, putting an unquoted operator between
\* double or single quotes yields the same pipeline.
C20_QuotedOperatorSamePipeline ==
    mpc = "parsed" =>
        \A sp \in UnquotedOperators(cmdline), q \in {DQUOTE, SQUOTE} :
            parse_pipeline(QuoteSpan(cmdline, sp, q)) = cmds

\* C20 amended: for every line without a backslash, putting an unquoted
\* operator between double or single quotes yields the same tokens, hence
\* the same pipeline.
C20_QuotedOperatorSamePipelineNoBackslash ==
    mpc = "parsed" =>
        \A sp \in UnquotedOperators(cmdline), q \in {DQUOTE, SQUOTE} :
            ~HasBackslash(cmdline) =>
                /\ tokenize(QuoteSpan(cmdline, sp, q)) = tokens
                /\ parse_pipeline(QuoteSpan(cmdline, sp, q)) = cmds

\* 'a | a': two stages, and the '|' is an operator written without quotes.
C20_Witness ==
    /\ mpc = "parsed"
    /\ cmdline = << "a", SP, "|", SP, "a" >>
    /\ UnquotedOperators(cmdline) = {<< 3, 4 >>}
    /\ Len(cmds) = 2
    /\ parse_pipeline(<< "a", SP, DQUOTE, "|", DQUOTE, SP, "a" >>) = cmds

====
